---- MODULE Spec2Model ----
(***************************************************************************)
(* Model of the deck.gl path layer (path-layer.js, with the path           *)
(* tessellator it delegates to) and of the text layer's glyph atlas and    *)
(* paragraph layout utilities (text-layer/utils.js).                       *)
(*                                                                         *)
(* Independent state machines share the module:                            *)
(*   SpecPath       PathLayer.updateState driving the tessellator          *)
(*   SpecTesselator the tessellator's updateGeometry on one record        *)
(*   SpecAtlas      buildMapping, each call chained from the previous one  *)
(*   SpecAtlasAny   buildMapping with arbitrary xOffset / yOffset          *)
(*   SpecText       transformParagraph / transformRow without word-break   *)
(***************************************************************************)
EXTENDS Integers, Sequences, FiniteSets, TLC

VARIABLES
    \* ---- path layer ----
    data,            \* props.data as seen through props.getPath: one path per record
    changeFlags,     \* the changeFlags argument of the latest updateState call
    pathTesselator,  \* this.state.pathTesselator
    state,           \* the rest of this.state: numInstances, bufferLayout, and whether
                     \* a model exists
    attributes,      \* the three instanced attributes fed by the tessellator
    oneChanged,      \* whether exactly one record's path differed in the latest call
    \* ---- glyph atlas ----
    mapping,         \* the mapping table: character -> {x, y, width, height, mask}
    xOffset,         \* xOffset returned by the latest buildMapping call
    yOffset,         \* yOffset returned by the latest buildMapping call
    canvasHeight,    \* canvasHeight returned by the latest buildMapping call (0: no call yet)
    characterSet,    \* the characterSet argument of the latest buildMapping call
    measured,        \* the characters getFontWidth was invoked for in the latest call
    getFontWidth,    \* the width getFontWidth reports for each character
    \* ---- paragraph layout ----
    transformedData, \* the output array handed to transformParagraph
    heap,            \* the size / rowSize arrays the records point to, by reference
    paragraph,       \* the paragraph argument of the latest transformParagraph call
    lineHeight,      \* the lineHeight argument, the same for every call
    base             \* Len(transformedData) when the latest call started

pathVars  == <<data, changeFlags, pathTesselator, state, attributes,
              oneChanged>>
atlasVars == <<mapping, xOffset, yOffset, canvasHeight, characterSet, measured,
               getFontWidth>>
textVars  == <<transformedData, heap, paragraph, lineHeight, base>>
vars      == <<pathVars, atlasVars, textVars>>

----------------------------------------------------------------------------
(* Generic helpers over sequences.                                         *)

RECURSIVE Sum(_)
Sum(s) == IF s = <<>> THEN 0 ELSE Head(s) + Sum(Tail(s))

RECURSIVE Flatten(_)
Flatten(ss) == IF ss = <<>> THEN <<>> ELSE Head(ss) \o Flatten(Tail(ss))

Max(a, b) == IF a >= b THEN a ELSE b

----------------------------------------------------------------------------
(* Path layer: inputs.                                                     *)

\* Largest number of records in props.data.
MaxRecords == 2

\* The paths a record's getPath may return in the layer: degenerate (1 point),
\* a single segment, and a four-point path that extends the specification's
\* worked example with a 3-component point.
PathCatalogue ==
    { << <<0, 0>> >>,
      << <<0, 0>>, <<1, 0>> >>,
      << <<0, 0>>, <<1, 0>>, <<1, 1>>, <<0, 1, 1>> >> }

\* Every path of up to MaxPoints points, for the tessellator driven alone.
MaxPoints == 5

Points == { <<0, 0>>, <<1, 1, 1>> }

Paths == UNION { [1..n -> Points] : n \in 0..MaxPoints }

DataSets == UNION { [1..n -> PathCatalogue] : n \in 0..MaxRecords }

TriggerSets == { {}, {"getColor"}, {"getPath"}, {"all"} }

ChangeFlags ==
    [dataChanged : BOOLEAN, updateTriggersChanged : TriggerSets, extensionsChanged : BOOLEAN]

AttributeNames == {"startPositions", "endPositions", "instanceTypes"}

----------------------------------------------------------------------------
(* Path tessellator (path-tesselator.js is not among the sources: these    *)
(* definitions follow section 4.1 of the specification).                   *)

\* Step 1: a point normalised to the default three components; a missing
\* third component is zero-filled.
normalize(p) == <<p[1], p[2], IF Len(p) >= 3 THEN p[3] ELSE 0>>

\* Step 2 / 5: the number of segments a path contributes.
getGeometrySize(path) == IF Len(path) < 2 THEN 0 ELSE Len(path) - 1

\* Step 3: segment i (1-based) runs from point i to point i + 1; `points`
\* are the normalised points of the path.
startPosition(points, i) ==
    points[IF i > 1 THEN i - 1 ELSE i] \o points[i]

endPosition(points, i) ==
    points[i + 1] \o points[IF i + 2 <= Len(points) THEN i + 2 ELSE i + 1]

segmentType_firstOnly(path, i) == IF i = 1 THEN 1 ELSE 0

\* Step 4: 1 for the first segment plus 2 for the last one.
segmentType(path, i) ==
    (IF i = 1 THEN 1 ELSE 0) + (IF i = getGeometrySize(path) THEN 2 ELSE 0)

\* The three streams of one path.
tesselate(path) ==
    LET n == getGeometrySize(path)
        points == [i \in 1..Len(path) |-> normalize(path[i])]
    IN  [startPositions |-> Flatten([i \in 1..n |-> startPosition(points, i)]),
         endPositions   |-> Flatten([i \in 1..n |-> endPosition(points, i)]),
         segmentTypes   |-> [i \in 1..n |-> segmentType(path, i)]]

\* Components per instance of each stream.
StreamSize(name) == IF name = "segmentTypes" THEN 1 ELSE 6

\* Number of instances before record i in a buffer layout.
LayoutOffset(layout, i) == Sum(SubSeq(layout, 1, i - 1))

\* The part of a stream that belongs to record i.
Slice(tess, name, i) ==
    LET from == LayoutOffset(tess.bufferLayout, i)
    IN  SubSeq(tess[name], StreamSize(name) * from + 1,
               StreamSize(name) * (from + tess.bufferLayout[i]))

NewTesselator ==
    [bufferLayout |-> <<>>, instanceCount |-> 0,
     startPositions |-> <<>>, endPositions |-> <<>>, segmentTypes |-> <<>>]

\* One record of an update, appended to the buffers built so far: its slice
\* is kept when the update is partial and the record's path is unchanged,
\* and tessellated anew otherwise.
updateRecord(acc, i, tess, oldData, newData, dataChanged) ==
    LET reuse == /\ ~dataChanged
                 /\ i <= Len(oldData)
                 /\ i <= Len(tess.bufferLayout)
                 /\ oldData[i] = newData[i]
        part == IF reuse
                THEN [startPositions |-> Slice(tess, "startPositions", i),
                      endPositions   |-> Slice(tess, "endPositions", i),
                      segmentTypes   |-> Slice(tess, "segmentTypes", i)]
                ELSE tesselate(newData[i])
        size == IF reuse THEN tess.bufferLayout[i] ELSE getGeometrySize(newData[i])
    IN  [bufferLayout   |-> Append(acc.bufferLayout, size),
         instanceCount  |-> acc.instanceCount + size,
         startPositions |-> acc.startPositions \o part.startPositions,
         endPositions   |-> acc.endPositions \o part.endPositions,
         segmentTypes   |-> acc.segmentTypes \o part.segmentTypes]

RECURSIVE updateRecords(_, _, _, _, _, _)
updateRecords(acc, i, tess, oldData, newData, dataChanged) ==
    IF i > Len(newData) THEN acc
    ELSE updateRecords(updateRecord(acc, i, tess, oldData, newData, dataChanged),
                       i + 1, tess, oldData, newData, dataChanged)

\* updateGeometry: a full rebuild from empty buffers when dataChanged, else a
\* partial update; the records are walked in input order.
updateGeometry(tess, oldData, newData, dataChanged) ==
    updateRecords(NewTesselator, 1, tess, oldData, newData, dataChanged)

\* get(attributeName): the current flat buffer of one stream.
get(tess, attributeName) == tess[attributeName]

----------------------------------------------------------------------------
(* PathLayer (path-layer.js).                                              *)

geometryChanged_dataOnly(flags) == flags.dataChanged

geometryChanged_anyTrigger(flags) ==
    flags.dataChanged \/ flags.updateTriggersChanged # {}

\* updateState, lines 140-143.
geometryChanged(flags) ==
    \/ flags.dataChanged
    \/ /\ flags.updateTriggersChanged # {}
       /\ \/ "all" \in flags.updateTriggersChanged
          \/ "getPath" \in flags.updateTriggersChanged

calculateStartPositions(attribute, tess) ==
    [attribute EXCEPT !.bufferLayout = tess.bufferLayout,
                      !.value = get(tess, "startPositions")]

calculateEndPositions(attribute, tess) ==
    [attribute EXCEPT !.bufferLayout = tess.bufferLayout,
                      !.value = get(tess, "endPositions")]

calculateSegmentTypes_endStream(attribute, tess) ==
    [attribute EXCEPT !.bufferLayout = tess.bufferLayout,
                      !.value = get(tess, "endPositions")]

calculateSegmentTypes(attribute, tess) ==
    [attribute EXCEPT !.bufferLayout = tess.bufferLayout,
                      !.value = get(tess, "segmentTypes")]

\* The update callback registered for each attribute in initializeState.
update(name, attribute, tess) ==
    CASE name = "startPositions" -> calculateStartPositions(attribute, tess)
      [] name = "endPositions"   -> calculateEndPositions(attribute, tess)
      [] name = "instanceTypes"  -> calculateSegmentTypes(attribute, tess)

\* Layer.updateState of the base class invalidates every attribute on a data
\* change only (comment at lines 158-159).
superUpdateState(flags) == flags.dataChanged

\* Whether one updateState call leaves the attributes invalidated.
invalidated(flags) ==
    \/ superUpdateState(flags)
    \/ (geometryChanged(flags) /\ ~flags.dataChanged)
    \/ flags.extensionsChanged

\* The props an update cycle may carry for given change flags: props.data is
\* replaced only under dataChanged, the paths getPath returns change only
\* under dataChanged or an `all` / `getPath` update trigger.
PropsFor(flags) ==
    IF flags.dataChanged THEN DataSets
    ELSE IF flags.updateTriggersChanged \cap {"all", "getPath"} # {}
         THEN [1..Len(data) -> PathCatalogue]
         ELSE {data}

\* One update cycle of the layer: updateState({oldProps, props, changeFlags}),
\* then the attribute manager runs the update callback of every invalidated
\* attribute.
updateState(flags, propsData) ==
    \E tess \in { IF geometryChanged(flags)
                  THEN updateGeometry(pathTesselator, data, propsData,
                                      flags.dataChanged)
                  ELSE pathTesselator } :
        LET s1 == IF geometryChanged(flags)
                  THEN [state EXCEPT !.hasGeometry = TRUE,
                                     !.numInstances = tess.instanceCount,
                                     !.bufferLayout = tess.bufferLayout]
                  ELSE state
            s2 == IF flags.extensionsChanged THEN [s1 EXCEPT !.model = TRUE] ELSE s1
        IN  /\ changeFlags' = flags
            /\ data' = propsData
            /\ oneChanged' =
                  /\ Len(propsData) = Len(data)
                  /\ \E k \in 1..Len(data) :
                        \A j \in 1..Len(data) : (data[j] # propsData[j]) <=> (j = k)
            /\ pathTesselator' = tess
            /\ state' = s2
            /\ attributes' =
                  [name \in AttributeNames |->
                      IF invalidated(flags) THEN update(name, attributes[name], tess)
                      ELSE attributes[name]]

InitPath ==
    /\ data = <<>>
    /\ changeFlags = [dataChanged |-> FALSE, updateTriggersChanged |-> {},
                      extensionsChanged |-> FALSE]
    /\ oneChanged = FALSE
    /\ pathTesselator = NewTesselator
    /\ state = [hasGeometry |-> FALSE, numInstances |-> 0, bufferLayout |-> <<>>,
                model |-> FALSE]
    /\ attributes = [name \in AttributeNames |-> [bufferLayout |-> <<>>, value |-> <<>>]]

UpdateState ==
    \E flags \in ChangeFlags : \E propsData \in PropsFor(flags) :
        updateState(flags, propsData)

\* The tessellator driven alone on a single record: updateGeometry with a
\* new path, as a full rebuild or as a partial update.
UpdateGeometry ==
    \E path \in Paths : \E dataChanged \in BOOLEAN :
        /\ pathTesselator' = updateGeometry(pathTesselator, data, <<path>>, dataChanged)
        /\ data' = <<path>>
        /\ changeFlags' = [changeFlags EXCEPT !.dataChanged = dataChanged]
        /\ UNCHANGED <<state, attributes, oneChanged>>

----------------------------------------------------------------------------
(* Glyph atlas: buildMapping (text-layer/utils.js).                        *)

\* The arguments every call shares.
fontHeight == 10
buffer == 2
maxCanvasWidth == 64

\* Longest characterSet handed to one call.
MaxSetLen == 2

Characters == {"a", "b", "c"}

\* Widths getFontWidth may report: 30 + 26 + 2 * buffer fills the canvas
\* exactly, 62 does not fit a row of its own.
Widths == {26, 30, 62}

CharacterSets == UNION { [1..n -> Characters] : n \in 0..MaxSetLen }

\* getFontWidth depends on the character alone, and a character is measured
\* at most once while the mapping is passed along: one width per character.
FontWidths == [Characters -> Widths]

SomeFontWidths == { [c \in Characters |-> 30],
                    [c \in Characters |-> IF c = "a" THEN 30 ELSE IF c = "b" THEN 26 ELSE 62] }

RECURSIVE ceilLog2(_)
\* Math.ceil(Math.log2(number)) for an integer number >= 1.
ceilLog2(number) == IF number <= 1 THEN 0 ELSE 1 + ceilLog2((number + 1) \div 2)

nextPowOfTwo_floor(number) ==
    IF 2 ^ ceilLog2(number) = number THEN number ELSE 2 ^ (ceilLog2(number) - 1)

nextPowOfTwo(number) == 2 ^ ceilLog2(number)

isMapped_never(table, char) == FALSE

\* Line 44: mapping[char] is truthy.
isMapped(table, char) == char \in DOMAIN table

exceedsCanvas_inclusive(x, width) == x + width + buffer * 2 >= maxCanvasWidth

\* Line 50.
exceedsCanvas(x, width) == x + width + buffer * 2 > maxCanvasWidth

advance_singleBuffer(x, width) == x + width + buffer

\* Line 61.
advance(x, width) == x + width + buffer * 2

\* The body of the forEach callback, lines 44-62. acc carries the closure's
\* mapping, x and row, and the characters getFontWidth was called for.
placeCharacter(acc, char, fontWidth, yOff) ==
    IF isMapped(acc.mapping, char) THEN acc
    ELSE LET width == fontWidth[char]
             wrap  == exceedsCanvas(acc.x, width)
             x     == IF wrap THEN 0 ELSE acc.x
             row   == IF wrap THEN acc.row + 1 ELSE acc.row
             frame == [x |-> x + buffer,
                       y |-> yOff + row * (fontHeight + buffer * 2) + buffer,
                       width |-> width,
                       height |-> fontHeight,
                       mask |-> TRUE]
         IN  [mapping  |-> (char :> frame) @@ acc.mapping,
              x        |-> advance(x, width),
              row      |-> row,
              measured |-> acc.measured \cup {char}]

RECURSIVE forEachCharacter(_, _, _, _)
forEachCharacter(chars, acc, fontWidth, yOff) ==
    IF chars = <<>> THEN acc
    ELSE forEachCharacter(Tail(chars),
                          placeCharacter(acc, Head(chars), fontWidth, yOff),
                          fontWidth, yOff)

buildMapping(chars, fontWidth, table, xOff, yOff) ==
    LET r == forEachCharacter(chars,
                 [mapping |-> table, x |-> xOff, row |-> 0, measured |-> {}],
                 fontWidth, yOff)
        rowHeight == fontHeight + buffer * 2
    IN  [mapping      |-> r.mapping,
         xOffset      |-> r.x,
         yOffset      |-> yOff + r.row * rowHeight,
         canvasHeight |-> nextPowOfTwo(yOff + (r.row + 1) * rowHeight),
         measured     |-> r.measured]

InitAtlas(fontWidth) ==
    /\ getFontWidth = fontWidth
    /\ mapping = <<>>
    /\ xOffset = 0
    /\ yOffset = 0
    /\ canvasHeight = 0
    /\ characterSet = <<>>
    /\ measured = {}

Returned(chars, results) ==
    \E result \in results :
    /\ mapping' = result.mapping
    /\ xOffset' = result.xOffset
    /\ yOffset' = result.yOffset
    /\ canvasHeight' = result.canvasHeight
    /\ measured' = result.measured
    /\ characterSet' = chars
    /\ UNCHANGED getFontWidth

\* A call that receives the mapping, xOffset and yOffset the previous call
\* returned (the defaults {}, 0, 0 on the first call).
BuildMappingChained ==
    \E chars \in CharacterSets :
        Returned(chars, {buildMapping(chars, getFontWidth, mapping, xOffset, yOffset)})

\* A call that passes the mapping along with offsets of the caller's choice.
BuildMappingAt ==
    \E chars \in CharacterSets :
    \E xOff \in {0, 34} : \E yOff \in {0, fontHeight + buffer * 2} :
        /\ xOff = 0 <=> yOff = 0
        /\ <<xOff, yOff>> # <<xOffset, yOffset>>
        /\ Returned(chars, {buildMapping(chars, getFontWidth, mapping, xOff, yOff)})

----------------------------------------------------------------------------
(* Paragraph layout: transformRow and transformParagraph                   *)
(* (text-layer/utils.js), with wordBreak unset.                            *)

MISSING_CHAR_WIDTH == 32

\* Longest generated paragraph, and the longest output array a call may be
\* asked to append to.
MaxParagraphLen == 3
MaxPrior == 1

\* The font atlas table handed in as iconMapping; "?" has no entry.
iconMapping ==
    [c \in {"a", "b", "c", "d"} |->
        [x |-> 0, y |-> 0, height |-> 20,
         width |-> CASE c = "a" -> 10 [] c = "b" -> 14 [] c = "c" -> 8 [] c = "d" -> 12]]

Paragraphs ==
    UNION { [1..n -> {"a", "?", "\n"}] : n \in 0..MaxParagraphLen }
        \cup { <<"a", "b", "\n", "c", "d">>, <<"b", "?", "a">> }

LineHeights == {1, 2}

RECURSIVE split(_, _)
\* paragraph.split('\n'); current is the row being collected.
split(text, current) ==
    IF text = <<>> THEN <<current>>
    ELSE IF Head(text) = "\n" THEN <<current>> \o split(Tail(text), <<>>)
    ELSE split(Tail(text), Append(current, Head(text)))

glyphAdvance_skipMissing(table, character) ==
    IF character \in DOMAIN table THEN table[character].width ELSE 0

\* Lines 174-185: what one character adds to offsetLeft.
glyphAdvance(table, character) ==
    IF character \in DOMAIN table THEN table[character].width ELSE MISSING_CHAR_WIDTH

\* The body of the map callback without wordBreak, lines 168-188.
mapCharacter(acc, character, table, lh) ==
    LET datum == [text |-> character, offsetTop |-> 0, offsetLeft |-> acc.offsetLeft]
    IN  [characters |-> Append(acc.characters, datum),
         offsetLeft |-> acc.offsetLeft + glyphAdvance(table, character),
         rowHeight  |-> IF character \in DOMAIN table /\ acc.rowHeight = 0
                        THEN table[character].height * lh
                        ELSE acc.rowHeight]

RECURSIVE mapCharacters(_, _, _, _)
mapCharacters(row, acc, table, lh) ==
    IF row = <<>> THEN acc
    ELSE mapCharacters(Tail(row), mapCharacter(acc, Head(row), table, lh), table, lh)

transformRow(row, table, lh) ==
    LET r == mapCharacters(row, [characters |-> <<>>, offsetLeft |-> 0, rowHeight |-> 0],
                           table, lh)
    IN  [characters |-> r.characters, rowWidth |-> r.offsetLeft, rowHeight |-> r.rowHeight]

\* The callback the claims assume: it returns the datum it is given.
transformCharacter(datum) == datum

\* The body of rows.forEach, lines 240-262. acc carries the output array, the
\* arrays allocated so far and offsetTop; sizeRef refers to the paragraph's
\* one size array, which every record of every row points to.
layoutRow(acc, row, table, lh, sizeRef) ==
    LET r == transformRow(row, table, lh)
        rowSizeRef == Len(acc.heap) + 1
        heap1 == Append(acc.heap, <<r.rowWidth, r.rowHeight>>)
        pushed == [i \in 1..Len(r.characters) |->
                     transformCharacter(
                         [text       |-> r.characters[i].text,
                          offsetLeft |-> r.characters[i].offsetLeft,
                          offsetTop  |-> r.characters[i].offsetTop + acc.offsetTop,
                          size       |-> sizeRef,
                          rowSize    |-> rowSizeRef])]
    IN  [out       |-> acc.out \o pushed,
         heap      |-> [heap1 EXCEPT ![sizeRef] =
                           <<Max(heap1[sizeRef][1], r.rowWidth), heap1[sizeRef][2]>>],
         offsetTop |-> acc.offsetTop + r.rowHeight]

RECURSIVE forEachRow(_, _, _, _, _)
forEachRow(rows, acc, table, lh, sizeRef) ==
    IF rows = <<>> THEN acc
    ELSE forEachRow(Tail(rows), layoutRow(acc, Head(rows), table, lh, sizeRef),
                    table, lh, sizeRef)

lastRow_unset(size, offsetTop) == size

\* Line 266: size[1] = offsetTop.
lastRow(size, offsetTop) == <<size[1], offsetTop>>

transformParagraph(text, table, lh, out, objects) ==
    LET rows == split(text, <<>>)
        sizeRef == Len(objects) + 1
        r == forEachRow(rows,
                 [out |-> out, heap |-> Append(objects, <<0, 0>>), offsetTop |-> 0],
                 table, lh, sizeRef)
    IN  [transformedData |-> r.out,
         heap |-> [r.heap EXCEPT ![sizeRef] = lastRow(r.heap[sizeRef], r.offsetTop)]]

InitText(lh) ==
    /\ transformedData = <<>>
    /\ heap = <<>>
    /\ paragraph = <<>>
    /\ lineHeight = lh
    /\ base = 0

Transformed(text, out, objects) ==
    \E r \in {transformParagraph(text, iconMapping, lineHeight, out, objects)} :
        /\ transformedData' = r.transformedData
        /\ heap' = r.heap
        /\ paragraph' = text
        /\ base' = Len(out)
        /\ UNCHANGED lineHeight

\* A call whose output array is new and empty.
TransformParagraph ==
    \E text \in Paragraphs : Transformed(text, <<>>, <<>>)

\* A call appending to the array the previous call filled.
TransformParagraphAppend ==
    /\ base = 0
    /\ transformedData # <<>>
    /\ Len(transformedData) <= MaxPrior
    /\ \E text \in Paragraphs : Transformed(text, transformedData, heap)

----------------------------------------------------------------------------
(* Specifications.                                                         *)

\* Each specification starts the layer, the atlas and the layout after
\* construction and then runs one of them.
InitPathLayer ==
    /\ InitPath
    /\ InitAtlas([c \in Characters |-> 30])
    /\ InitText(1)

InitGlyphAtlas ==
    /\ InitPath
    /\ \E fontWidth \in FontWidths : InitAtlas(fontWidth)
    /\ InitText(1)

InitGlyphAtlasAny ==
    /\ InitPath
    /\ \E fontWidth \in SomeFontWidths : InitAtlas(fontWidth)
    /\ InitText(1)

InitLayout ==
    /\ InitPath
    /\ InitAtlas([c \in Characters |-> 30])
    /\ \E lh \in LineHeights : InitText(lh)

NextPath == UpdateState /\ UNCHANGED <<atlasVars, textVars>>

NextTesselator == UpdateGeometry /\ UNCHANGED <<atlasVars, textVars>>

NextAtlas == BuildMappingChained /\ UNCHANGED <<pathVars, textVars>>

NextAtlasAny ==
    \/ BuildMappingChained /\ UNCHANGED <<pathVars, textVars>>
    \/ BuildMappingAt /\ UNCHANGED <<pathVars, textVars>>

NextText ==
    \/ TransformParagraph /\ UNCHANGED <<pathVars, atlasVars>>
    \/ TransformParagraphAppend /\ UNCHANGED <<pathVars, atlasVars>>

SpecPath == InitPathLayer /\ [][NextPath]_vars

SpecTesselator == InitPathLayer /\ [][NextTesselator]_vars

SpecAtlas == InitGlyphAtlas /\ [][NextAtlas]_vars

SpecAtlasAny == InitGlyphAtlasAny /\ [][NextAtlasAny]_vars

SpecText == InitLayout /\ [][NextText]_vars

----------------------------------------------------------------------------
(* Properties of the path tessellator and the path layer.                  *)

\* Whether change flags announce changed geometry: a data change, or an
\* `all` or `getPath` update trigger.
FlaggedGeometry(flags) ==
    \/ flags.dataChanged
    \/ "all" \in flags.updateTriggersChanged
    \/ "getPath" \in flags.updateTriggersChanged

\* A call that announces changed geometry without a data change.
PartialCall(flags) == ~flags.dataChanged /\ FlaggedGeometry(flags)

ExpectedTypes(n) ==
    IF n < 2 THEN <<>>
    ELSE IF n = 2 THEN <<3>>
    ELSE [j \in 1..(n - 1) |-> IF j = 1 THEN 1 ELSE IF j = n - 1 THEN 2 ELSE 0]

\* C2: the tags emitted for a path of N points are none when N < 2 (with a
\* bufferLayout entry of 0), exactly <<3>> when N = 2, and for N > 2 a
\* sequence of N - 1 tags: 1 first, 2 last, 0 in between.
C2_SegmentTypes ==
    /\ Len(pathTesselator.bufferLayout) = Len(data)
    /\ \A i \in 1..Len(data) :
          /\ Slice(pathTesselator, "segmentTypes", i) = ExpectedTypes(Len(data[i]))
          /\ Len(data[i]) < 2 => pathTesselator.bufferLayout[i] = 0

\* The tessellator holds a path of five points, with interior segments.
C2_Witness ==
    /\ Len(data) = 1
    /\ Len(data[1]) = 5
    /\ pathTesselator.segmentTypes = <<1, 0, 0, 2>>

\* Record k's is the only path that differs between two data sets.
OnlyChanged(k, old, new) ==
    /\ Len(new) = Len(old)
    /\ k \in 1..Len(old)
    /\ \A j \in 1..Len(old) : (old[j] # new[j]) <=> (j = k)

SameSlice(t1, t2, j) ==
    /\ t1.bufferLayout[j] = t2.bufferLayout[j]
    /\ \A name \in {"startPositions", "endPositions", "segmentTypes"} :
          Slice(t1, name, j) = Slice(t2, name, j)

SliceOf(tess, j, path) ==
    /\ tess.bufferLayout[j] = getGeometrySize(path)
    /\ \A name \in {"startPositions", "endPositions", "segmentTypes"} :
          Slice(tess, name, j) = tesselate(path)[name]

C3_Step ==
    \A k \in 1..Len(data) :
        (PartialCall(changeFlags') /\ OnlyChanged(k, data, data')) =>
            /\ Len(pathTesselator'.bufferLayout) = Len(data)
            /\ \A j \in 1..Len(data) :
                  j # k => SameSlice(pathTesselator', pathTesselator, j)
            /\ SliceOf(pathTesselator', k, data'[k])

\* C3: a partial update after only record k's path changed leaves the
\* bufferLayout entry, the start / end positions and the type tags of every
\* other record unchanged, and record k's slice is that of its new path.
C3_PartialUpdateFrame == [][C3_Step]_vars

\* A partial update in which exactly one of two records changed.
C3_Witness ==
    /\ PartialCall(changeFlags)
    /\ oneChanged
    /\ Len(data) = 2
    /\ pathTesselator.bufferLayout[1] # pathTesselator.bufferLayout[2]

C9_InSync ==
    state.hasGeometry =>
        /\ state.numInstances = pathTesselator.instanceCount
        /\ state.bufferLayout = pathTesselator.bufferLayout

C9_Refreshed ==
    FlaggedGeometry(changeFlags) =>
        /\ state.hasGeometry
        /\ pathTesselator.bufferLayout = [i \in 1..Len(data) |-> getGeometrySize(data[i])]
        /\ state.bufferLayout = pathTesselator.bufferLayout
        /\ state.numInstances = Sum(pathTesselator.bufferLayout)

C9_Skipped ==
    ~FlaggedGeometry(changeFlags') =>
        /\ pathTesselator' = pathTesselator
        /\ state'.hasGeometry = state.hasGeometry
        /\ state'.numInstances = state.numInstances
        /\ state'.bufferLayout = state.bufferLayout

\* C9: once a call with changed geometry has occurred, the layer state's
\* numInstances and bufferLayout equal the tessellator's instanceCount and
\* bufferLayout; every call with changed geometry runs updateGeometry and
\* refreshes both, and a call without changed geometry leaves the
\* tessellator and both values unchanged.
C9_StateFollowsTesselator ==
    [](C9_InSync /\ C9_Refreshed) /\ [][C9_Skipped]_vars

\* A call without changed geometry (extensions only) after geometry was set.
C9_Witness ==
    /\ ~FlaggedGeometry(changeFlags)
    /\ changeFlags.extensionsChanged
    /\ changeFlags.updateTriggersChanged = {"getColor"}
    /\ state.hasGeometry
    /\ state.numInstances > 1

----------------------------------------------------------------------------
(* Properties of buildMapping.                                             *)

RECURSIVE NewCharacters(_, _)
\* The characters of a characterSet that a call places, in order: those not
\* in the table, each at its first occurrence.
NewCharacters(chars, known) ==
    IF chars = <<>> THEN <<>>
    ELSE IF Head(chars) \in known THEN NewCharacters(Tail(chars), known)
    ELSE <<Head(chars)>> \o NewCharacters(Tail(chars), known \cup {Head(chars)})

C4_Step ==
    \A c \in DOMAIN mapping :
        /\ c \in DOMAIN mapping'
        /\ mapping'[c] = mapping[c]
        /\ c \notin measured'

\* C4: across calls that pass the mapping along, whatever the characterSet,
\* xOffset and yOffset, every character already in the mapping keeps its x, y,
\* width and height, and getFontWidth is not invoked for it.
C4_MappedCharactersKept == [][C4_Step]_vars

\* The latest call was handed a character that was in the mapping already,
\* together with a new one, at offsets other than those returned before.
C4_Witness ==
    /\ \E i, j \in 1..Len(characterSet) :
          /\ characterSet[i] \notin measured
          /\ characterSet[j] \in measured
    /\ \E c, d \in DOMAIN mapping :
          c # d /\ mapping[c].x = mapping[d].x /\ mapping[c].y = mapping[d].y

C5_Step ==
    LET new == NewCharacters(characterSet', DOMAIN mapping)
    IN  \A i \in 1..Len(new) :
            LET frame == mapping'[new[i]]
                prev  == mapping'[new[IF i = 1 THEN 1 ELSE i - 1]]
                \* the running x-offset and the row's y when new[i] is placed
                runX  == IF i = 1 THEN xOffset ELSE prev.x + prev.width + buffer
                rowY  == IF i = 1 THEN yOffset + buffer ELSE prev.y
            IN  IF runX + frame.width + 2 * buffer > maxCanvasWidth
                THEN frame.x = buffer /\ frame.y = rowY + fontHeight + 2 * buffer
                ELSE frame.x = runX + buffer /\ frame.y = rowY

\* C5: new characters are placed left to right, and a character moves to a
\* new row (x = buffer, y advanced by fontHeight + 2 * buffer) exactly when
\* the running x-offset plus its width and padding exceeds maxCanvasWidth.
C5_WrapsWhenExceeding == [][C5_Step]_vars

\* maxCanvasWidth 64, buffer 2, every width 30: the first character stays on
\* the first row and the second one wraps.
C5_Witness ==
    /\ maxCanvasWidth = 64 /\ buffer = 2
    /\ \A c \in Characters : getFontWidth[c] = 30
    /\ characterSet = <<"a", "b">>
    /\ measured = {"a", "b"}
    /\ mapping["a"].x = 2 /\ mapping["a"].y = 2
    /\ mapping["b"].x = 2 /\ mapping["b"].y = 2 + fontHeight + 4

RECURSIVE IsPowerOfTwo(_)
IsPowerOfTwo(n) == n = 1 \/ (n > 1 /\ n % 2 = 0 /\ IsPowerOfTwo(n \div 2))

C6_Contains ==
    canvasHeight # 0 =>
        /\ IsPowerOfTwo(canvasHeight)
        /\ \A c \in DOMAIN mapping :
              canvasHeight >= mapping[c].y + mapping[c].height + buffer

\* C6: over calls chained from xOffset = 0, yOffset = 0, the returned
\* canvasHeight is a power of two, is at least y + height + buffer for every
\* character in the mapping, and never decreases from one call to the next.
C6_CanvasHeight == []C6_Contains /\ [][canvasHeight' >= canvasHeight]_vars

\* Three rows are in use and the canvas has grown past two rows' power of two.
C6_Witness ==
    /\ \E c \in DOMAIN mapping : mapping[c].y > 2 * (fontHeight + 2 * buffer)
    /\ canvasHeight > 2 * (fontHeight + 2 * buffer)
    /\ canvasHeight > nextPowOfTwo(fontHeight + 2 * buffer)

\* The padded rectangles of c and d are disjoint.
Apart(f, g) ==
    \/ f.x + f.width + buffer <= g.x - buffer
    \/ g.x + g.width + buffer <= f.x - buffer
    \/ f.y + f.height + buffer <= g.y - buffer
    \/ g.y + g.height + buffer <= f.y - buffer

\* C10: over chained calls in which every width satisfies
\* width + 2 * buffer <= maxCanvasWidth, the padded rectangles of two
\* distinct characters do not overlap and each lies within [0, maxCanvasWidth].
C10_NoOverlap ==
    (\A c \in DOMAIN mapping : mapping[c].width + 2 * buffer <= maxCanvasWidth) =>
        /\ \A c, d \in DOMAIN mapping : c # d => Apart(mapping[c], mapping[d])
        /\ \A c \in DOMAIN mapping :
              /\ mapping[c].x - buffer >= 0
              /\ mapping[c].x + mapping[c].width + buffer <= maxCanvasWidth

\* Three characters that all fit: two share a row, the third is on another.
C10_Witness ==
    /\ DOMAIN mapping = Characters
    /\ \A c \in Characters : mapping[c].width + 2 * buffer <= maxCanvasWidth
    /\ \E c, d \in Characters : c # d /\ mapping[c].y = mapping[d].y
    /\ \E c, d \in Characters : mapping[c].y # mapping[d].y

----------------------------------------------------------------------------
(* Properties of transformParagraph and transformRow.                      *)

\* The records the latest call pushed.
Pushed == SubSeq(transformedData, base + 1, Len(transformedData))

Rows == split(paragraph, <<>>)

RowResults == [k \in 1..Len(Rows) |-> transformRow(Rows[k], iconMapping, lineHeight)]

RECURSIVE MaxRowWidth(_)
MaxRowWidth(k) == IF k = 0 THEN 0 ELSE Max(MaxRowWidth(k - 1), RowResults[k].rowWidth)

RECURSIVE SumRowHeight(_)
SumRowHeight(k) == IF k = 0 THEN 0 ELSE SumRowHeight(k - 1) + RowResults[k].rowHeight

\* C7: after transformParagraph returns, transformedData has gained one record
\* per non-newline character of the paragraph, in paragraph order, and all of
\* them hold the same size array, whose value is
\* [maximum rowWidth over the rows, sum of rowHeight over the rows].
C7_OneRecordPerCharacter ==
    /\ [i \in 1..Len(Pushed) |-> Pushed[i].text]
           = SelectSeq(paragraph, LAMBDA c : c # "\n")
    /\ \A i, j \in 1..Len(Pushed) : Pushed[i].size = Pushed[j].size
    /\ \A i \in 1..Len(Pushed) :
           heap[Pushed[i].size] = <<MaxRowWidth(Len(Rows)), SumRowHeight(Len(Rows))>>

\* "ab\ncd": four records, two per row, sharing one size of value
\* [max(24, 20), 2 * 20 * lineHeight].
C7_Witness ==
    /\ paragraph = <<"a", "b", "\n", "c", "d">>
    /\ Len(Pushed) = 4
    /\ Pushed[1].offsetTop # Pushed[4].offsetTop
    /\ Pushed[1].size = Pushed[4].size
    /\ heap[Pushed[1].size] = <<24, 40 * lineHeight>>

\* Width a character contributes: its glyph's width, or the fallback.
WidthOrFallback(character) ==
    IF character \in DOMAIN iconMapping
    THEN iconMapping[character].width
    ELSE MISSING_CHAR_WIDTH

RECURSIVE PrefixWidth(_, _)
\* Sum of the contributions of the first n characters of row.
PrefixWidth(row, n) ==
    IF n = 0 THEN 0 ELSE PrefixWidth(row, n - 1) + WidthOrFallback(row[n])

RECURSIVE RowStart(_)
\* Number of records pushed before those of row k.
RowStart(k) == IF k = 1 THEN 0 ELSE RowStart(k - 1) + Len(Rows[k - 1])

\* C8: a character absent from iconMapping does not abort its row: every
\* character of the row has a record, the offsetLeft of the i-th is the sum
\* of the widths (glyph width, or 32 for a missing glyph) of the characters
\* before it, and rowWidth is that sum over the whole row.
C8_MissingGlyphFallback ==
    /\ \A k \in 1..Len(Rows) :
          /\ Len(RowResults[k].characters) = Len(Rows[k])
          /\ RowResults[k].rowWidth = PrefixWidth(Rows[k], Len(Rows[k]))
          /\ \A i \in 1..Len(Rows[k]) :
                /\ RowResults[k].characters[i].text = Rows[k][i]
                /\ RowResults[k].characters[i].offsetLeft = PrefixWidth(Rows[k], i - 1)
    /\ Len(Pushed) = RowStart(Len(Rows)) + Len(Rows[Len(Rows)])
    /\ \A k \in 1..Len(Rows) : \A i \in 1..Len(Rows[k]) :
          LET datum == Pushed[RowStart(k) + i]
          IN  /\ datum.text = Rows[k][i]
              /\ datum.offsetLeft = PrefixWidth(Rows[k], i - 1)
              /\ heap[datum.rowSize][1] = PrefixWidth(Rows[k], Len(Rows[k]))

\* A row with a missing glyph in the middle: the character after it is
\* offset by the fallback width in addition to the mapped width before it.
C8_Witness ==
    /\ paragraph = <<"b", "?", "a">>
    /\ Len(Pushed) = 3
    /\ Pushed[2].text = "?" /\ Pushed[2].offsetLeft = 14
    /\ Pushed[3].offsetLeft = 14 + MISSING_CHAR_WIDTH
    /\ heap[Pushed[3].rowSize][1] = 14 + MISSING_CHAR_WIDTH + 10

====
